---- MODULE Spec2Model ----
(***************************************************************************)
(* Model of the Bedrock PR review runners                                  *)
(*   .github/scripts/bedrock_agent_runner.py        (serial runner)        *)
(*   .github/scripts/bedrock_agent_runner_async.py  (concurrent runner)    *)
(*                                                                         *)
(* Texts (diffs, prompts, model responses) are run-length encoded: a text  *)
(* is a sequence of runs [c |-> symbol, n |-> repetitions] in which no two *)
(* adjacent runs carry the same symbol, so that two texts are equal        *)
(* exactly when their encodings are equal and texts of 100,000 characters  *)
(* are still small values.  In a diff the symbol "M" is one occurrence of  *)
(* the file boundary marker 'diff --git a/' (13 characters); the marker    *)
(* has no proper prefix that is also a suffix, so every diff splits in     *)
(* exactly one way into marker occurrences and other characters.           *)
(***************************************************************************)
EXTENDS Integers, Sequences, FiniteSets, TLC

VARIABLES
    pc,          \* position of the harness or of the CLI entry point
    diff,        \* _chunk_diff: the diff text handed in
    max_chars,   \* _chunk_diff: the threshold handed in
    chunks,      \* _chunk_diff: the list returned
    document,    \* the text a model response carries between its code fences
    response_text, \* _parse_json_response: the raw text handed in
    agent_name,  \* the agent a call is made for
    result,      \* the dictionary a call returned
    runner,      \* "serial": bedrock_agent_runner.py, "async": the async one
    context_len, \* characters of the prompt that are not the embedded diff
    prompt_len,  \* len(full_prompt) of invoke_agent
    state,       \* where the agent run stands
    calls,       \* the inference calls of the run, one per prompt
    all_results, \* the list handed to _aggregate_chunk_results
    exit_code,   \* the code the process exited with
    mode,        \* "single": --agent; "multi": --agents or --parallel
    agents_to_run, \* the agents asked for, in order
    tasks,       \* run_agents_parallel: one run_single task per agent
    output       \* run_agents_parallel: the mapping it returns

vars == <<pc, diff, max_chars, chunks, document, response_text, agent_name,
          result, runner, context_len, prompt_len, state, calls, all_results,
          exit_code, mode, agents_to_run, tasks, output>>

-----------------------------------------------------------------------------
(* Bounds of the model *)

\* longest text, in runs, drawn as an input
MaxRuns == 5

\* most members, and white space between them, of a drawn JSON object
MaxMembers == 2

\* most files in the diff of a modelled run
MaxFiles == 3

\* most agents named with --agents
MaxAgents == 3

\* most inference calls of a multi-agent run
MaxCalls == 5

\* longest list of chunk results handed to the aggregator alone
MaxResults == 3

-----------------------------------------------------------------------------
(* Program constants *)

\* len('diff --git a/'), the literal of file_pattern
MarkerLen == 13

\* default of _chunk_diff's max_chars
DEFAULT_MAX_CHARS == 50000

\* raw_text[:1000] of _get_default_response
RAW_LIMIT == 1000

\* pr_context['diff'][:100000] of _create_review_prompt
DIFF_EMBED_LIMIT == 100000

\* len(full_prompt) > 150000 of invoke_agent
PROMPT_GATE == 150000

-----------------------------------------------------------------------------
(* Texts *)

Run(c, n) == [c |-> c, n |-> n]

\* characters one occurrence of a symbol stands for
CharWidth(c) == IF c = "M" THEN MarkerLen ELSE 1

RECURSIVE TLen(_)
\* len(text)
TLen(t) == IF t = <<>> THEN 0
           ELSE Head(t).n * CharWidth(Head(t).c) + TLen(Tail(t))

\* a + b on strings
Cat(a, b) ==
    IF a = <<>> THEN b
    ELSE IF b = <<>> THEN a
    ELSE IF a[Len(a)].c = b[1].c
         THEN SubSeq(a, 1, Len(a) - 1)
              \o <<Run(b[1].c, a[Len(a)].n + b[1].n)>>
              \o Tail(b)
         ELSE a \o b

RECURSIVE Join(_)
\* ''.join(parts)
Join(parts) == IF parts = <<>> THEN <<>>
               ELSE Cat(Head(parts), Join(Tail(parts)))

RECURSIVE Take(_, _)
\* text[:k]; a marker cut short leaves its first characters, written as a
\* run of the symbol "m"
Take(t, k) ==
    IF t = <<>> \/ k <= 0 THEN <<>>
    ELSE LET r == Head(t)
             w == CharWidth(r.c)
         IN  IF r.n * w <= k
             THEN Cat(<<r>>, Take(Tail(t), k - r.n * w))
             ELSE Cat(IF k \div w > 0 THEN <<Run(r.c, k \div w)>> ELSE <<>>,
                      IF k % w > 0 THEN <<Run("m", k % w)>> ELSE <<>>)

\* text[1:]
DropOne(t) == IF Head(t).n > 1 THEN <<Run(Head(t).c, Head(t).n - 1)>> \o Tail(t)
              ELSE Tail(t)

RECURSIVE StartsWith(_, _)
\* text.startswith(word), word a sequence of symbols
StartsWith(t, word) ==
    \/ word = <<>>
    \/ /\ t # <<>>
       /\ Head(t).c = Head(word)
       /\ StartsWith(DropOne(t), Tail(word))

RECURSIVE DropChars(_, _)
\* text[k:] for a k within the text
DropChars(t, k) == IF k = 0 \/ t = <<>> THEN t ELSE DropChars(DropOne(t), k - 1)

\* a text is well formed when no run is empty and adjacent runs differ
WellFormed(t) ==
    /\ \A i \in 1..Len(t) : t[i].n >= 1
    /\ \A i \in 1..(Len(t) - 1) : t[i].c # t[i + 1].c

-----------------------------------------------------------------------------
(* Review results: Python dictionaries *)

\* A dictionary is a record of every key the runners read or write, with
\* has the set of keys present; an absent key holds the value below.  type
\* tells a JSON object ("dict") from any other JSON value ("list").
\* Field raw is key "_raw" and field note is key "_note".
NoMsg == [kind |-> "", text |-> <<>>, n |-> 0]

EmptyDict ==
    [type |-> "dict", has |-> {}, status |-> "", violations_count |-> 0,
     violations |-> <<>>, new_pattern_found |-> FALSE, patterns |-> <<>>,
     deviations |-> <<>>, summary |-> NoMsg, raw |-> <<>>, note |-> 0,
     error |-> "", chunk |-> 0]

\* the process has not exited
NoExit == 0 - 1

\* no dictionary yet
NoResult == [EmptyDict EXCEPT !.type = "none"]

\* what a call that raised leaves in place of a dictionary; error names the
\* exception
Raised(exception) == [EmptyDict EXCEPT !.type = "raise", !.error = exception]

\* json.loads of a document that is not an object
ListValue == [EmptyDict EXCEPT !.type = "list"]

\* r.get('status', default)
GetStatus(r, default) == IF "status" \in r.has THEN r.status ELSE default

\* r.get("violations", [])
GetViolations(r) == IF "violations" \in r.has THEN r.violations ELSE <<>>

\* r.get("patterns", [])
GetPatterns(r) == IF "patterns" \in r.has THEN r.patterns ELSE <<>>

\* r.get("new_pattern_found", False)
GetNewPatternFound(r) ==
    IF "new_pattern_found" \in r.has THEN r.new_pattern_found ELSE FALSE

AGENTS == {"code_quality", "architect", "lld_alignment",
           "pattern_matching", "jira_integration"}

\* list(AGENTS.keys())
AGENT_KEYS == <<"code_quality", "architect", "lld_alignment",
                "pattern_matching", "jira_integration">>

\* the mapping from agent name to result before anything was put in it:
\* has is its key set, val[a] the result under key a
NoOutput == [has |-> {}, val |-> [a \in AGENTS |-> NoResult]]

\* the messages the runners write themselves
Msg(kind, n) == [kind |-> kind, text |-> <<>>, n |-> n]

\* a string the model wrote
TextMsg(t) == [kind |-> "text", text |-> t, n |-> 0]

-----------------------------------------------------------------------------
(* Response Parser: _parse_json_response *)

\* Symbols of a response: "B" is one backtick; "j" "s" "o" "n" the letters of
\* the fence tag; " " and "\n" white space; "{" "}" "[" "]" "q" (a double
\* quote) the JSON punctuation; "x" any other character.  Inside an object
\* one symbol stands for one whole member, as MemberOf tells.
IsSpace(c) == c \in {" ", "\n"}

RECURSIVE DropSpace(_)
\* what \s* leaves
DropSpace(t) == IF t # <<>> /\ IsSpace(Head(t).c) THEN DropSpace(Tail(t)) ELSE t

RECURSIVE SubFenceNoTag(_)
\* SubFence that does not know the json tag
SubFenceNoTag(t) ==
    IF t = <<>> THEN <<>>
    ELSE IF StartsWith(t, <<"B", "B", "B">>)
         THEN SubFenceNoTag(DropSpace(DropChars(t, 3)))
         ELSE Cat(<<Head(t)>>, SubFenceNoTag(Tail(t)))

RECURSIVE SubFence(_)
\* re.sub(r'BBB(?:json)?\s*', '', text), B a backtick
SubFence(t) ==
    IF t = <<>> THEN <<>>
    ELSE IF StartsWith(t, <<"B", "B", "B">>)
         THEN LET after == DropChars(t, 3)
                  untagged == IF StartsWith(after, <<"j", "s", "o", "n">>)
                              THEN DropChars(after, 4) ELSE after
              IN  SubFence(DropSpace(untagged))
         ELSE Cat(<<Head(t)>>, SubFence(Tail(t)))

RECURSIVE DropSpaceRight(_)
\* text.rstrip()
DropSpaceRight(t) ==
    IF t # <<>> /\ IsSpace(t[Len(t)].c)
    THEN DropSpaceRight(SubSeq(t, 1, Len(t) - 1)) ELSE t

\* re.sub(r'BBB\s*$', '', text): the last three backticks of the text and
\* the white space after them, when that is how the text ends
SubFenceAtEnd(t) ==
    LET body == DropSpaceRight(t)
    IN  IF body # <<>> /\ body[Len(body)].c = "B" /\ body[Len(body)].n >= 3
        THEN IF body[Len(body)].n = 3 THEN SubSeq(body, 1, Len(body) - 1)
             ELSE SubSeq(body, 1, Len(body) - 1)
                  \o <<Run("B", body[Len(body)].n - 3)>>
        ELSE t

\* text.strip()
Strip(t) == DropSpaceRight(DropSpace(t))

\* cleaned, as _parse_json_response computes it
Cleaned(text) == Strip(SubFenceAtEnd(SubFence(text)))

StatusSymbols == {"P", "F", "E", "D", "C", "N", "O"}

\* the status a status member carries
StatusOf(c) ==
    CASE c = "P" -> "PASS"
      [] c = "F" -> "FAIL"
      [] c = "E" -> "ERROR"
      [] c = "D" -> "LLD_DEVIATION_FOUND"
      [] c = "C" -> "LLD_COMPLIANT"
      [] c = "N" -> "NEW_PATTERN_DETECTED"
      [] c = "O" -> "NO_NEW_PATTERN"

MemberSymbols == StatusSymbols \cup {"e", "v", "w", "T", "U", "r", "u", "d"}

\* the dictionary acc after the member a symbol stands for was read; a key
\* read twice keeps the later value
MemberOf(c, acc) ==
    CASE c \in StatusSymbols ->
            [acc EXCEPT !.has = @ \cup {"status"}, !.status = StatusOf(c)]
      [] c = "e" ->
            [acc EXCEPT !.has = @ \cup {"violations"}, !.violations = <<>>]
      [] c = "v" ->
            [acc EXCEPT !.has = @ \cup {"violations"}, !.violations = <<"v1">>]
      [] c = "w" ->
            [acc EXCEPT !.has = @ \cup {"violations"},
                        !.violations = <<"w1", "w2">>]
      [] c = "T" ->
            [acc EXCEPT !.has = @ \cup {"new_pattern_found"},
                        !.new_pattern_found = TRUE]
      [] c = "U" ->
            [acc EXCEPT !.has = @ \cup {"new_pattern_found"},
                        !.new_pattern_found = FALSE]
      [] c = "r" ->
            [acc EXCEPT !.has = @ \cup {"patterns"}, !.patterns = <<"p1">>]
      [] c = "u" ->
            [acc EXCEPT !.has = @ \cup {"patterns"},
                        !.patterns = <<"p2", "p3">>]
      [] c = "d" ->
            [acc EXCEPT !.has = @ \cup {"deviations"}, !.deviations = <<"d1">>]

RECURSIVE UpToQuote(_)
\* the characters of a string up to its closing quote
UpToQuote(t) == IF t = <<>> \/ Head(t).c = "q" THEN <<>>
                ELSE <<Head(t)>> \o UpToQuote(Tail(t))

JsonError == [ok |-> FALSE, value |-> NoResult]

\* the nesting depth from which the decoder, which recurses once for each
\* open bracket, raises RecursionError: the interpreter's recursion limit
\* as it is by default
RECURSION_LIMIT == 1000

RECURSIVE JsonMembers(_, _)
\* the members of an object up to its closing brace, which ends the document
JsonMembers(t, acc) ==
    IF t = <<>> THEN JsonError
    ELSE LET c == Head(t).c
         IN  CASE c = "}" ->
                    IF Head(t).n = 1 /\ Tail(t) = <<>>
                    THEN [ok |-> TRUE, value |-> acc] ELSE JsonError
               [] IsSpace(c) -> JsonMembers(Tail(t), acc)
               [] c \in MemberSymbols -> JsonMembers(Tail(t), MemberOf(c, acc))
               [] c = "q" ->
                    LET inside == DropOne(t)
                        str == UpToQuote(inside)
                        closing == SubSeq(inside, Len(str) + 1, Len(inside))
                    IN  IF closing = <<>> THEN JsonError
                        ELSE JsonMembers(DropOne(closing),
                                [acc EXCEPT !.has = @ \cup {"summary"},
                                            !.summary = TextMsg(str)])
               [] OTHER -> JsonError

\* json.loads(cleaned): ok is FALSE where it raises, json.JSONDecodeError
\* unless value names another exception (json.loads itself skips white
\* space around the document)
JsonLoads(text) ==
    LET t == Strip(text)
    IN  IF t = <<Run("[", 1), Run("]", 1)>>
        THEN [ok |-> TRUE, value |-> ListValue]
        ELSE IF t # <<>> /\ Head(t).c = "[" /\ Head(t).n >= RECURSION_LIMIT
             THEN [ok |-> FALSE, value |-> Raised("RecursionError")]
             ELSE IF t # <<>> /\ Head(t) = Run("{", 1)
                  THEN JsonMembers(Tail(t), EmptyDict)
                  ELSE JsonError

\* _get_default_response(agent_name, raw_text)
GetDefaultResponse(agent, raw_text) ==
    LET base == [EmptyDict EXCEPT !.has = {"status", "_raw"}, !.status = "ERROR",
                                  !.raw = Take(raw_text, RAW_LIMIT)]
        failed == Msg("Failed to parse response. Raw output available.", 0)
    IN  CASE agent = "code_quality" ->
                [base EXCEPT !.has = @ \cup {"violations_count", "violations",
                                             "summary"},
                             !.summary = failed]
          [] agent = "architect" ->
                [base EXCEPT !.has = @ \cup {"new_pattern_found", "patterns",
                                             "summary"},
                             !.summary = failed]
          [] agent = "lld_alignment" ->
                [base EXCEPT !.has = @ \cup {"deviations", "summary"},
                             !.summary = failed]
          [] OTHER -> base

\* _parse_json_response(response_text, agent_name): only
\* json.JSONDecodeError is caught
ParseJsonResponse(text, agent) ==
    LET decoded == JsonLoads(Cleaned(text))
    IN  IF decoded.ok THEN decoded.value
        ELSE IF decoded.value.type = "raise" THEN decoded.value
             ELSE GetDefaultResponse(agent, text)

-----------------------------------------------------------------------------
(* Chunk Aggregator: _aggregate_chunk_results *)

\* AllViolations that stops after the first result
FirstViolationsOnly(results) ==
    IF results = <<>> THEN <<>> ELSE GetViolations(Head(results))

RECURSIVE AllViolations(_)
\* all_violations: r.get("violations", []) of every result, in order
AllViolations(results) ==
    IF results = <<>> THEN <<>>
    ELSE GetViolations(Head(results)) \o AllViolations(Tail(results))

RECURSIVE AllPatternsLastFirst(_)
\* AllPatterns with the later chunks' patterns put first
AllPatternsLastFirst(results) ==
    IF results = <<>> THEN <<>>
    ELSE AllPatternsLastFirst(Tail(results)) \o GetPatterns(Head(results))

RECURSIVE AllPatterns(_)
\* all_patterns: r.get("patterns", []) of every result, in order
AllPatterns(results) ==
    IF results = <<>> THEN <<>>
    ELSE GetPatterns(Head(results)) \o AllPatterns(Tail(results))

\* AggregateChunkResults that returns the last result with the note,
\* whatever the agent
AggregateFromLastResult(results, agent) ==
    IF results = <<>>
    THEN [EmptyDict EXCEPT !.has = {"status", "error"}, !.status = "ERROR",
                           !.error = "No results from chunk processing"]
    ELSE IF results[Len(results)].type # "dict" THEN Raised("TypeError")
    ELSE [results[Len(results)] EXCEPT !.has = @ \cup {"_note"},
                                       !.note = Len(results)]

\* _aggregate_chunk_results(results, agent_name); a result that is no
\* dictionary has no get and takes no item assignment
AggregateChunkResults(results, agent) ==
    IF results = <<>>
    THEN [EmptyDict EXCEPT !.has = {"status", "error"}, !.status = "ERROR",
                           !.error = "No results from chunk processing"]
    ELSE IF agent = "code_quality"
    THEN IF \E i \in 1..Len(results) : results[i].type # "dict"
         THEN Raised("AttributeError")
         ELSE LET all_violations == AllViolations(results)
              IN  [EmptyDict EXCEPT
                      !.has = {"status", "violations_count", "violations",
                               "summary"},
                      !.status = IF all_violations # <<>> THEN "FAIL" ELSE "PASS",
                      !.violations_count = Len(all_violations),
                      !.violations = all_violations,
                      !.summary = Msg("Aggregated review from chunks",
                                      Len(results))]
    ELSE IF agent = "architect"
    THEN IF \E i \in 1..Len(results) : results[i].type # "dict"
         THEN Raised("AttributeError")
         ELSE LET new_pattern_found ==
                      \E i \in 1..Len(results) : GetNewPatternFound(results[i])
              IN  [EmptyDict EXCEPT
                      !.has = {"status", "new_pattern_found", "patterns",
                               "summary"},
                      !.status = IF new_pattern_found THEN "NEW_PATTERN_DETECTED"
                                 ELSE "NO_NEW_PATTERN",
                      !.new_pattern_found = new_pattern_found,
                      !.patterns = AllPatterns(results),
                      !.summary = Msg("Aggregated analysis from chunks",
                                      Len(results))]
    ELSE IF results[1].type # "dict" THEN Raised("TypeError")
    ELSE [results[1] EXCEPT !.has = @ \cup {"_note"}, !.note = Len(results)]

-----------------------------------------------------------------------------
(* Diff Chunker: _chunk_diff *)

RECURSIVE Body(_)
\* the characters '.*?' takes after a marker: everything up to the next marker
Body(t) == IF t = <<>> \/ Head(t).c = "M" THEN <<>>
           ELSE <<Head(t)>> \o Body(Tail(t))

RECURSIVE FileDiffs(_)
\* re.findall(r'(diff --git a/.*?(?=diff --git a/|\Z))', diff, re.DOTALL)
FileDiffs(t) ==
    IF t = <<>> THEN <<>>
    ELSE IF Head(t).c # "M" THEN FileDiffs(Tail(t))
    ELSE LET rest == IF Head(t).n > 1
                     THEN <<Run("M", Head(t).n - 1)>> \o Tail(t)
                     ELSE Tail(t)
             body == Body(rest)
         IN  <<Cat(<<Run("M", 1)>>, body)>>
             \o FileDiffs(SubSeq(rest, Len(body) + 1, Len(rest)))

RECURSIVE PackLoopIgnoringCurrent(_, _, _, _)
\* PackLoop with the size test taken on the file diff alone
PackLoopIgnoringCurrent(file_diffs, limit, acc, current_chunk) ==
    IF file_diffs = <<>>
    THEN IF current_chunk # <<>> THEN Append(acc, current_chunk) ELSE acc
    ELSE LET file_diff == Head(file_diffs)
         IN  IF TLen(file_diff) > limit /\ current_chunk # <<>>
             THEN PackLoopIgnoringCurrent(Tail(file_diffs), limit,
                                          Append(acc, current_chunk), file_diff)
             ELSE PackLoopIgnoringCurrent(Tail(file_diffs), limit,
                                          acc, Cat(current_chunk, file_diff))

RECURSIVE PackLoop(_, _, _, _)
\* the for loop over file_diffs, then the final flush of current_chunk
PackLoop(file_diffs, limit, acc, current_chunk) ==
    IF file_diffs = <<>>
    THEN IF current_chunk # <<>> THEN Append(acc, current_chunk) ELSE acc
    ELSE LET file_diff == Head(file_diffs)
         IN  IF TLen(current_chunk) + TLen(file_diff) > limit
                /\ current_chunk # <<>>
             THEN PackLoop(Tail(file_diffs), limit,
                           Append(acc, current_chunk), file_diff)
             ELSE PackLoop(Tail(file_diffs), limit,
                           acc, Cat(current_chunk, file_diff))

\* ChunkDiff that returns early only below the threshold
ChunkDiffBelowOnly(d, limit) ==
    IF TLen(d) < limit THEN <<d>>
    ELSE PackLoop(FileDiffs(d), limit, <<>>, <<>>)

\* _chunk_diff(diff, max_chars)
ChunkDiff(d, limit) ==
    IF TLen(d) <= limit THEN <<d>>
    ELSE PackLoop(FileDiffs(d), limit, <<>>, <<>>)

-----------------------------------------------------------------------------
(* Inputs of the chunker *)

\* the runs a drawn diff is made of: one or two adjacent boundary markers,
\* and stretches of other characters of several sizes
DiffRuns == {Run("M", 1), Run("M", 2),
             Run("x", 20000), Run("x", 60000), Run("y", 49987)}

RECURSIVE TextsOver(_, _)
\* the well formed texts of at most k runs drawn from runs
TextsOver(runs, k) ==
    IF k = 0 THEN {<<>>}
    ELSE LET shorter == TextsOver(runs, k - 1)
         IN  shorter \cup
             {Append(t, r) : t \in {s \in shorter : Len(s) = k - 1}, r \in runs}

DiffTexts == {t \in TextsOver(DiffRuns, MaxRuns) : WellFormed(t)}

\* the thresholds handed to _chunk_diff: the default, and one that a block
\* of a marker and 20,000 characters fills exactly
ChunkThresholds == {DEFAULT_MAX_CHARS, 20000 + MarkerLen}

-----------------------------------------------------------------------------
(* Specification of the chunker alone *)

\* the variables of the chunker, the parser and a single call at rest
ChunkerIdle == diff = <<>> /\ max_chars = 0 /\ chunks = <<>>
ParserIdle == document = <<>> /\ response_text = <<>>
CallIdle == agent_name = "" /\ result = NoResult
RunIdle ==
    /\ runner = "" /\ context_len = 0 /\ prompt_len = 0 /\ state = ""
    /\ calls = <<>> /\ all_results = <<>> /\ exit_code = NoExit
    /\ mode = "" /\ agents_to_run = <<>> /\ tasks = <<>> /\ output = NoOutput

inputVars == <<diff, max_chars, document, response_text, agent_name, runner,
               context_len, mode, agents_to_run>>

multiVars == <<tasks, output>>

runVars == <<runner, context_len, prompt_len, state, calls, all_results,
             exit_code, mode, agents_to_run, tasks, output>>

InitChunk ==
    /\ pc = "chunk_call"
    /\ diff \in DiffTexts
    /\ max_chars \in ChunkThresholds
    /\ chunks = <<>>
    /\ ParserIdle
    /\ CallIdle
    /\ RunIdle

\* one call of _chunk_diff
DoChunkDiff ==
    /\ pc = "chunk_call"
    /\ chunks' = ChunkDiff(diff, max_chars)
    /\ pc' = "chunk_done"
    /\ UNCHANGED <<diff, max_chars, document, response_text, agent_name, result>>
    /\ UNCHANGED runVars

NextChunk == DoChunkDiff

SpecChunk == InitChunk /\ [][NextChunk]_vars

-----------------------------------------------------------------------------
(* Inputs of the parser *)

Sym(c) == <<Run(c, 1)>>

FENCE == <<Run("B", 3)>>

JSON_TAG == <<Run("j", 1), Run("s", 1), Run("o", 1), Run("n", 1)>>

MemberRuns == {Run("P", 1), Run("F", 1), Run("v", 1), Run(" ", 1)}

\* JSON objects: a few members in braces; objects whose summary string
\* itself holds backticks; an object between white space; the empty array
JsonObjects ==
    {Join(<<Sym("{"), m, Sym("}")>>) :
        m \in {t \in TextsOver(MemberRuns, MaxMembers) : WellFormed(t)}}
    \cup {Join(<<Sym("{"), Sym("q"), Sym("x"), FENCE, JSON_TAG, Sym(" "),
                 Sym("x"), Sym("q"), Sym("D"), Sym("}")>>),
          Join(<<Sym("{"), Sym("E"), Sym("q"), <<Run("B", 4)>>, Sym("q"),
                 Sym("}")>>),
          Join(<<Sym("\n"), Sym("{"), Sym("N"), Sym("T"), Sym("r"), Sym("}"),
                 Sym(" ")>>),
          Join(<<Sym("["), Sym("]")>>)}

\* texts json.loads rejects: prose of about RAW_LIMIT characters, prose
\* around a fence, an object cut short, an object followed by prose, an
\* unclosed string, stray backticks, open brackets (two, and a hundred
\* thousand), nothing
Unparsable ==
    {<<Run("x", n)>> : n \in {1, RAW_LIMIT - 1, RAW_LIMIT, RAW_LIMIT + 1}}
    \cup {<<Run("[", n)>> : n \in {2, 100000}}
    \cup {Join(<<<<Run("x", 600)>>, FENCE, JSON_TAG, <<Run("x", 600)>>>>),
          Join(<<Sym("{"), Sym("P")>>),
          Join(<<Sym("{"), Sym("P"), Sym("}"), <<Run("x", RAW_LIMIT)>>>>),
          Join(<<Sym("{"), Sym("q"), Sym("x"), Sym("}")>>),
          Join(<<Sym("B"), Sym("{"), Sym("P"), Sym("}")>>),
          <<>>}

Documents == JsonObjects \cup Unparsable

\* what a response puts before the document: nothing, or an opening fence
\* with or without the tag and with or without white space around it
FenceOpeners ==
    {FENCE, Join(<<FENCE, JSON_TAG>>), Join(<<FENCE, JSON_TAG, Sym("\n")>>),
     Join(<<FENCE, Sym("\n")>>),
     Join(<<Sym(" "), FENCE, JSON_TAG, Sym(" "), Sym("\n")>>)}

\* what a response puts after the document: nothing, or a closing fence
FenceClosers ==
    {FENCE, Join(<<Sym("\n"), FENCE>>), Join(<<Sym("\n"), FENCE, Sym("\n")>>)}

-----------------------------------------------------------------------------
(* Specification of the parser alone *)

InitParse ==
    /\ pc = "parse_call"
    /\ document \in Documents
    /\ \E opener \in FenceOpeners \cup {<<>>}, closer \in FenceClosers \cup {<<>>} :
          response_text = Join(<<opener, document, closer>>)
    /\ agent_name \in AGENTS
    /\ result = NoResult
    /\ ChunkerIdle
    /\ RunIdle

\* one call of _parse_json_response
DoParseJsonResponse ==
    /\ pc = "parse_call"
    /\ result' = ParseJsonResponse(response_text, agent_name)
    /\ pc' = "parse_done"
    /\ UNCHANGED <<diff, max_chars, chunks, document, response_text, agent_name>>
    /\ UNCHANGED runVars

NextParse == DoParseJsonResponse

SpecParse == InitParse /\ [][NextParse]_vars

-----------------------------------------------------------------------------
(* Prompt Assembler and Inference Invoker: one agent run *)

\* len(_create_review_prompt(agent_prompt, pr_context)): context is the
\* length of the template, the frame, the metadata, the description and the
\* file list together; the diff is embedded up to DIFF_EMBED_LIMIT
PromptLen(context, d) == context + TLen(Take(d, DIFF_EMBED_LIMIT))

\* FAILING without the deviation status
FAILING_WITHOUT_DEVIATION == {"FAIL", "ERROR"}

\* the statuses main and main_async exit 1 on
FAILING == {"FAIL", "ERROR", "LLD_DEVIATION_FOUND"}

\* an inference call: st is "pending" before client.converse is called,
\* "sent" while it is awaited, "returned" once its response was parsed into
\* parsed, "raised" once it raised ClientError; seq is the rank in which
\* the call completed among the calls gathered with it, which the
\* specification of the gather alone keeps (0 elsewhere)
PendingCall == [st |-> "pending", response |-> <<>>, parsed |-> NoResult,
                seq |-> 0]

\* what client.converse does: raise ClientError, or return a response text
ClientError == [kind |-> "raise", text |-> <<>>]

Response(t) == [kind |-> "text", text |-> t]

\* the responses of the modelled runs: PASS with an empty violations list,
\* FAIL with one violation, a deviation, a new pattern, an object without a
\* status, a JSON array, and prose
RunResponses ==
    {Join(<<Sym("{"), Sym("P"), Sym("e"), Sym("}")>>),
     Join(<<FENCE, JSON_TAG, Sym("\n"), Sym("{"), Sym("F"), Sym("v"), Sym("}"),
            Sym("\n"), FENCE>>),
     Join(<<Sym("{"), Sym("D"), Sym("d"), Sym("}")>>),
     Join(<<Sym("{"), Sym("N"), Sym("T"), Sym("r"), Sym("}")>>),
     Join(<<Sym("{"), Sym("}")>>),
     Join(<<Sym("["), Sym("]")>>),
     Sym("x")}

RunOutcomes == {ClientError} \cup {Response(t) : t \in RunResponses}

\* the dictionary process_chunk returns for a chunk whose call raised
ChunkErrorDict(chunk_num) ==
    [EmptyDict EXCEPT !.has = {"status", "chunk", "error"}, !.status = "ERROR",
                      !.chunk = chunk_num, !.error = "ClientError"]

RECURSIVE SerialResults(_)
\* all_results of _invoke_chunked: the parsed responses, in chunk order; a
\* chunk whose call raised is skipped
SerialResults(cs) ==
    IF cs = <<>> THEN <<>>
    ELSE IF Head(cs).st = "returned"
         THEN <<Head(cs).parsed>> \o SerialResults(Tail(cs))
         ELSE SerialResults(Tail(cs))

RECURSIVE ValidResultsKeepingErrors(_, _)
\* ValidResults without the test on status
ValidResultsKeepingErrors(cs, chunk_num) ==
    IF cs = <<>> THEN <<>>
    ELSE LET r == IF Head(cs).st = "returned" THEN Head(cs).parsed
                  ELSE ChunkErrorDict(chunk_num)
         IN  IF r.type = "dict"
             THEN <<r>> \o ValidResultsKeepingErrors(Tail(cs), chunk_num + 1)
             ELSE ValidResultsKeepingErrors(Tail(cs), chunk_num + 1)

\* ValidResults over the results taken in the order the calls completed
ValidResultsAsCompleted(cs, chunk_num) ==
    LET done == [k \in 1..Len(cs) |->
                    cs[CHOOSE i \in 1..Len(cs) : cs[i].seq = k]]
        rs == [k \in 1..Len(cs) |->
                  IF done[k].st = "returned" THEN done[k].parsed
                  ELSE ChunkErrorDict(chunk_num)]
        Valid(r) == r.type = "dict" /\ ~("status" \in r.has /\ r.status = "ERROR")
    IN  SelectSeq(rs, Valid)

RECURSIVE ValidResults(_, _)
\* valid_results of _invoke_chunked_parallel: what gather returns, in chunk
\* order, less what is no dictionary or has status ERROR; chunk_num counts
\* from 0
ValidResults(cs, chunk_num) ==
    IF cs = <<>> THEN <<>>
    ELSE LET r == IF Head(cs).st = "returned" THEN Head(cs).parsed
                  ELSE ChunkErrorDict(chunk_num)
         IN  IF r.type = "dict" /\ ~("status" \in r.has /\ r.status = "ERROR")
             THEN <<r>> \o ValidResults(Tail(cs), chunk_num + 1)
             ELSE ValidResults(Tail(cs), chunk_num + 1)

\* IsChunked taken at the gate already
IsChunkedFromGate == prompt_len >= PROMPT_GATE

\* the run is on the chunked path
IsChunked == prompt_len > PROMPT_GATE

\* the diff section of the prompt _create_review_prompt builds around a
\* diff or a chunk: pr_context['diff'][:100000]
DiffSection(d) == Take(d, DIFF_EMBED_LIMIT)

\* the diff sections of the prompts the run has sent so far, in call order:
\* the full prompt's on the single-shot path, one for each chunk whose call
\* was made on the chunked path
SentSections ==
    LET made == SelectSeq([i \in 1..Len(calls) |-> i],
                          LAMBDA i : calls[i].st # "pending")
    IN  [k \in 1..Len(made) |->
            IF IsChunked THEN DiffSection(chunks[made[k]])
            ELSE DiffSection(diff)]

\* every call of the run has returned or raised
AllResolved == \A i \in 1..Len(calls) : calls[i].st \in {"returned", "raised"}

\* the code main exits with once invoke_agent returned r: result.get on a
\* value that is no dictionary raises, which main catches
ExitCodeOf(r) ==
    IF r.type # "dict" THEN 1
    ELSE IF GetStatus(r, "ERROR") \in FAILING THEN 1 ELSE 0

-----------------------------------------------------------------------------
(* Inputs of a run *)

\* one file of 60,000 characters, marker included
BigFile == <<Run("M", 1), Run("x", 60000 - MarkerLen)>>

RECURSIVE Files(_)
\* a diff of k such files
Files(k) == IF k = 0 THEN <<>> ELSE Cat(BigFile, Files(k - 1))

\* the diffs of the modelled runs: a small one, diffs of one to MaxFiles big
\* files (120,000 characters with two), and 120,000 characters in which no
\* file boundary occurs
RunDiffs ==
    {<<Run("M", 1), Run("x", 1000)>>, <<Run("x", 120000)>>}
    \cup {Files(k) : k \in 1..MaxFiles}

\* the lengths of the rest of the prompt: a built-in default template with
\* a short description, a long template or description, and one that makes
\* a prompt exactly as long as the gate once the diff fills its section
ContextLens == {1000, 60000, PROMPT_GATE - DIFF_EMBED_LIMIT}

-----------------------------------------------------------------------------
(* Runner: run_agents_parallel and the multi-agent branch of main_async *)

\* the calls of a run whose i-th call met outcome outs[i]
CallsOf(outs, agent) ==
    [i \in 1..Len(outs) |->
        IF outs[i].kind = "raise"
        THEN [PendingCall EXCEPT !.st = "raised"]
        ELSE [st |-> "returned", response |-> outs[i].text,
              parsed |-> ParseJsonResponse(outs[i].text, agent)]]

\* the number of inference calls invoke_agent makes
CallCount(context, d) ==
    IF PromptLen(context, d) > PROMPT_GATE
    THEN Len(ChunkDiff(d, DEFAULT_MAX_CHARS)) ELSE 1

\* what invoke_agent of the async runner returns, or Raised, when its i-th
\* call meets outcome outs[i]
InvokeAgentAsync(agent, context, d, outs) ==
    IF PromptLen(context, d) > PROMPT_GATE
    THEN AggregateChunkResults(ValidResults(CallsOf(outs, agent), 0), agent)
    ELSE IF outs[1].kind = "raise" THEN Raised("ClientError")
    ELSE ParseJsonResponse(outs[1].text, agent)

RECURSIVE OutputFailFast(_, _, _)
\* OutputOf were gather to raise the first exception: nothing is returned
OutputFailFast(names, ts, acc) ==
    IF \E i \in 1..Len(ts) : ts[i].st = "raised" THEN NoOutput
    ELSE IF names = <<>> THEN acc
    ELSE OutputFailFast(Tail(names), Tail(ts),
            [has |-> acc.has \cup {Head(names)},
             val |-> [acc.val EXCEPT ![Head(names)] = Head(ts).value]])

RECURSIVE OutputOf(_, _, _)
\* the loop over the gathered results: an exception is logged, any other
\* result is stored under its agent's name
OutputOf(names, ts, acc) ==
    IF names = <<>> THEN acc
    ELSE OutputOf(Tail(names), Tail(ts),
            IF Head(ts).st = "raised" THEN acc
            ELSE [has |-> acc.has \cup {Head(names)},
                  val |-> [acc.val EXCEPT ![Head(names)] = Head(ts).value]])

\* the code main_async exits with on the mapping out: r.get on a value that
\* is no dictionary raises, which main_async catches
ExitCodeOfAll(out) ==
    IF \E a \in out.has : out.val[a].type # "dict" THEN 1
    ELSE IF \E a \in out.has : GetStatus(out.val[a], "ERROR") \in FAILING THEN 1
    ELSE 0

\* what the endpoint does in the multi-agent runs of the model
ParallelOutcomes ==
    {ClientError,
     Response(Join(<<Sym("{"), Sym("P"), Sym("e"), Sym("}")>>)),
     Response(Join(<<FENCE, JSON_TAG, Sym("\n"), Sym("{"), Sym("F"), Sym("v"),
                     Sym("}"), Sym("\n"), FENCE>>)),
     Response(Join(<<Sym("{"), Sym("}")>>))}

\* args.agents: up to MaxAgents neighbours of the registry, two agents out
\* of registry order, one agent named twice; or, with --parallel,
\* list(AGENTS.keys())
AgentLists ==
    {l \in {SubSeq(AGENT_KEYS, a, b) :
                a \in 1..Len(AGENT_KEYS), b \in 1..Len(AGENT_KEYS)} :
        Len(l) \in 1..MaxAgents}
    \cup {AGENT_KEYS, <<"architect", "code_quality">>,
          <<"lld_alignment", "lld_alignment">>}

\* run_agents_parallel creates one run_single task per agent and gathers
StartTasks ==
    /\ pc = "main_invoke"
    /\ mode = "multi"
    /\ tasks' = [i \in 1..Len(agents_to_run) |->
                    [st |-> "running", value |-> NoResult]]
    /\ pc' = "gathering"
    /\ UNCHANGED <<inputVars, chunks, result, prompt_len, state, calls,
                   all_results, exit_code, output>>

\* invoke_agent of one task runs to its end, whatever the other tasks did
TaskCompletes ==
    /\ pc = "gathering"
    /\ \E i \in 1..Len(tasks) :
          /\ tasks[i].st = "running"
          /\ \E outs \in [1..CallCount(context_len, diff) -> ParallelOutcomes] :
                LET value == InvokeAgentAsync(agents_to_run[i], context_len,
                                              diff, outs)
                IN  tasks' = [tasks EXCEPT ![i] =
                        [st |-> IF value.type = "raise" THEN "raised"
                                ELSE "returned",
                         value |-> value]]
    /\ UNCHANGED <<pc, inputVars, chunks, result, prompt_len, state, calls,
                   all_results, exit_code, output>>

\* gather returns once every task is through; the mapping is built
GatherReturns ==
    /\ pc = "gathering"
    /\ \A i \in 1..Len(tasks) : tasks[i].st # "running"
    /\ output' = OutputOf(agents_to_run, tasks, NoOutput)
    /\ pc' = "main_report"
    /\ UNCHANGED <<inputVars, chunks, result, prompt_len, state, calls,
                   all_results, exit_code, tasks>>

\* main_async prints the mapping and exits on its statuses
MainExitMulti ==
    /\ pc = "main_report"
    /\ exit_code' = ExitCodeOfAll(output)
    /\ pc' = "exited"
    /\ UNCHANGED <<inputVars, chunks, result, prompt_len, state, calls,
                   all_results, tasks, output>>

-----------------------------------------------------------------------------
(* Specification of a run: main, and main_async with --agent, --agents or  *)
(* --parallel                                                              *)

\* a single-agent run of either runner
InitSingle ==
    /\ mode = "single"
    /\ runner \in {"serial", "async"}
    /\ agent_name \in AGENTS
    /\ agents_to_run = <<agent_name>>
    /\ state = "NotStarted"

\* a run of the async runner with --agents or --parallel
InitMulti ==
    /\ mode = "multi"
    /\ runner = "async"
    /\ agent_name = ""
    /\ agents_to_run \in AgentLists
    /\ state = ""
    /\ Len(agents_to_run) * CallCount(context_len, diff) <= MaxCalls

Init ==
    /\ pc = "main_fetch"
    /\ diff \in RunDiffs
    /\ context_len \in ContextLens
    /\ max_chars = DEFAULT_MAX_CHARS
    /\ chunks = <<>>
    /\ ParserIdle
    /\ result = NoResult
    /\ prompt_len = 0
    /\ calls = <<>>
    /\ all_results = <<>>
    /\ exit_code = NoExit
    /\ tasks = <<>>
    /\ output = NoOutput
    /\ InitSingle \/ InitMulti

\* _get_pr_context returns the context
FetchContext ==
    /\ pc = "main_fetch"
    /\ pc' = "main_invoke"
    /\ UNCHANGED <<inputVars, multiVars, chunks, result, prompt_len, state, calls,
                   all_results, exit_code>>

\* _get_pr_context raises (gh failed, or its output is no JSON); main logs
\* and exits 1
FetchFails ==
    /\ pc = "main_fetch"
    /\ pc' = "exited"
    /\ exit_code' = 1
    /\ UNCHANGED <<inputVars, multiVars, chunks, result, prompt_len, state, calls,
                   all_results>>

\* invoke_agent: _load_agent_prompt and _create_review_prompt
BuildPrompt ==
    /\ pc = "main_invoke"
    /\ mode = "single"
    /\ state = "NotStarted"
    /\ prompt_len' = PromptLen(context_len, diff)
    /\ state' = "PromptBuilt"
    /\ UNCHANGED <<pc, inputVars, multiVars, chunks, result, calls, all_results, exit_code>>

\* invoke_agent: the prompt is within the gate; one call is to be made
RouteSingleShot ==
    /\ state = "PromptBuilt"
    /\ ~IsChunked
    /\ calls' = <<PendingCall>>
    /\ state' = "SingleShot"
    /\ UNCHANGED <<pc, inputVars, multiVars, chunks, result, prompt_len, all_results,
                   exit_code>>

\* invoke_agent: the prompt is over the gate; _invoke_chunked or
\* _invoke_chunked_parallel chunks the diff, one call per chunk
RouteChunked ==
    /\ state = "PromptBuilt"
    /\ IsChunked
    /\ chunks' = ChunkDiff(diff, max_chars)
    /\ calls' = [i \in 1..Len(chunks') |-> PendingCall]
    /\ state' = "Chunked"
    /\ UNCHANGED <<pc, inputVars, multiVars, result, prompt_len, all_results, exit_code>>

\* client.converse is called with the full prompt
SendSingleShot ==
    /\ state = "SingleShot"
    /\ calls' = [calls EXCEPT ![1].st = "sent"]
    /\ state' = "AwaitingResponse"
    /\ UNCHANGED <<pc, inputVars, multiVars, chunks, result, prompt_len, all_results,
                   exit_code>>

\* _invoke_chunked: the loop calls client.converse for the next chunk
SendNextChunk ==
    /\ runner = "serial"
    /\ IsChunked
    /\ state \in {"Chunked", "Parsed"}
    /\ \E i \in 1..Len(calls) :
          /\ calls[i].st = "pending"
          /\ \A j \in 1..(i - 1) : calls[j].st # "pending"
          /\ calls' = [calls EXCEPT ![i].st = "sent"]
    /\ state' = "AwaitingResponse"
    /\ UNCHANGED <<pc, inputVars, multiVars, chunks, result, prompt_len, all_results,
                   exit_code>>

\* _invoke_chunked_parallel: asyncio.gather starts process_chunk for every
\* chunk
LaunchChunks ==
    /\ runner = "async"
    /\ state = "Chunked"
    /\ calls # <<>>
    /\ calls' = [i \in 1..Len(calls) |-> [calls[i] EXCEPT !.st = "sent"]]
    /\ state' = "AwaitingResponse"
    /\ UNCHANGED <<pc, inputVars, multiVars, chunks, result, prompt_len, all_results,
                   exit_code>>

\* the call of the single-shot path returns: the response is parsed
SingleShotReturns ==
    /\ ~IsChunked
    /\ state = "AwaitingResponse"
    /\ \E t \in RunResponses :
          /\ calls' = [calls EXCEPT ![1] = [st |-> "returned", response |-> t,
                                  parsed |-> ParseJsonResponse(t, agent_name),
                                  seq |-> 0]]
          /\ result' = ParseJsonResponse(t, agent_name)
    /\ state' = "Parsed"
    /\ UNCHANGED <<pc, inputVars, multiVars, chunks, prompt_len, all_results, exit_code>>

\* SingleShotRaises with the error recovered into the default record
SingleShotRaisesRecovered ==
    /\ ~IsChunked
    /\ state = "AwaitingResponse"
    /\ calls' = [calls EXCEPT ![1].st = "raised"]
    /\ result' = GetDefaultResponse(agent_name, <<>>)
    /\ state' = "Parsed"
    /\ UNCHANGED <<pc, inputVars, multiVars, chunks, prompt_len, all_results, exit_code>>

\* the call of the single-shot path raises ClientError: invoke_agent logs
\* and raises again
SingleShotRaises ==
    /\ ~IsChunked
    /\ state = "AwaitingResponse"
    /\ calls' = [calls EXCEPT ![1].st = "raised"]
    /\ result' = Raised("ClientError")
    /\ state' = "Failed"
    /\ UNCHANGED <<pc, inputVars, multiVars, chunks, prompt_len, all_results, exit_code>>

\* a call of the chunked path returns or raises: a response is parsed, an
\* error is logged and the chunk skipped (serial) or turned into an ERROR
\* dictionary (async)
ChunkResolves ==
    /\ IsChunked
    /\ state = "AwaitingResponse"
    /\ \E i \in 1..Len(calls), o \in RunOutcomes :
          /\ calls[i].st = "sent"
          /\ calls' = [calls EXCEPT ![i] =
                IF o.kind = "raise" THEN [@ EXCEPT !.st = "raised"]
                ELSE [st |-> "returned", response |-> o.text,
                      parsed |-> ParseJsonResponse(o.text, agent_name),
                      seq |-> 0]]
    /\ state' = IF runner = "serial" \/ AllResolved' THEN "Parsed"
                ELSE "AwaitingResponse"
    /\ UNCHANGED <<pc, inputVars, multiVars, chunks, result, prompt_len, all_results,
                   exit_code>>

\* invoke_agent returns the parsed response of the single-shot path
ReturnSingleShot ==
    /\ ~IsChunked
    /\ state = "Parsed"
    /\ state' = "Done"
    /\ UNCHANGED <<pc, inputVars, multiVars, chunks, result, prompt_len, calls,
                   all_results, exit_code>>

\* Aggregate that does not wait for every chunk
AggregateEarly ==
    /\ IsChunked
    /\ state \in {"Chunked", "Parsed"}
    /\ all_results' = IF runner = "serial" THEN SerialResults(calls)
                      ELSE ValidResults(calls, 0)
    /\ result' = AggregateChunkResults(all_results', agent_name)
    /\ state' = IF result'.type = "raise" THEN "Failed" ELSE "Aggregated"
    /\ UNCHANGED <<pc, inputVars, multiVars, chunks, prompt_len, calls, exit_code>>

\* every chunk is through: the results are aggregated
Aggregate ==
    /\ IsChunked
    /\ state \in {"Chunked", "Parsed"}
    /\ AllResolved
    /\ all_results' = IF runner = "serial" THEN SerialResults(calls)
                      ELSE ValidResults(calls, 0)
    /\ result' = AggregateChunkResults(all_results', agent_name)
    /\ state' = IF result'.type = "raise" THEN "Failed" ELSE "Aggregated"
    /\ UNCHANGED <<pc, inputVars, multiVars, chunks, prompt_len, calls, exit_code>>

\* invoke_agent returns the aggregated result
ReturnAggregated ==
    /\ state = "Aggregated"
    /\ state' = "Done"
    /\ UNCHANGED <<pc, inputVars, multiVars, chunks, result, prompt_len, calls,
                   all_results, exit_code>>

\* main prints the result and exits on its status
MainExit ==
    /\ pc = "main_invoke"
    /\ state = "Done"
    /\ exit_code' = ExitCodeOf(result)
    /\ pc' = "exited"
    /\ UNCHANGED <<inputVars, multiVars, chunks, result, prompt_len, state, calls,
                   all_results>>

\* invoke_agent raised: main logs and exits 1
MainCatch ==
    /\ pc = "main_invoke"
    /\ state = "Failed"
    /\ exit_code' = 1
    /\ pc' = "exited"
    /\ UNCHANGED <<inputVars, multiVars, chunks, result, prompt_len, state, calls,
                   all_results>>

Next ==
    \/ FetchContext \/ FetchFails \/ BuildPrompt
    \/ RouteSingleShot \/ RouteChunked
    \/ SendSingleShot \/ SendNextChunk \/ LaunchChunks
    \/ SingleShotReturns \/ SingleShotRaises \/ ChunkResolves
    \/ ReturnSingleShot \/ Aggregate \/ ReturnAggregated
    \/ MainExit \/ MainCatch
    \/ StartTasks \/ TaskCompletes \/ GatherReturns \/ MainExitMulti

Spec == Init /\ [][Next]_vars

-----------------------------------------------------------------------------
(* Specification of the gather of one agent's chunks alone:
   _invoke_chunked_parallel *)

\* what a chunk's call does in the modelled gathers: raise ClientError, or
\* return a compliant result, a deviation, one violation, two violations,
\* or prose
GatherOutcomes ==
    {ClientError} \cup
    {Response(t) : t \in
        {Join(<<Sym("{"), Sym("C"), Sym("}")>>),
         Join(<<Sym("{"), Sym("D"), Sym("d"), Sym("}")>>),
         Join(<<Sym("{"), Sym("F"), Sym("v"), Sym("}")>>),
         Join(<<Sym("{"), Sym("w"), Sym("F"), Sym("}")>>),
         Sym("x")}}

InitGather ==
    /\ pc = "gather_call"
    /\ runner = "async"
    /\ agent_name \in AGENTS
    /\ diff \in {Files(k) : k \in 1..MaxFiles}
    /\ max_chars = DEFAULT_MAX_CHARS
    /\ chunks = <<>>
    /\ calls = <<>>
    /\ all_results = <<>>
    /\ result = NoResult
    /\ ParserIdle
    /\ context_len = 0 /\ prompt_len = 0 /\ state = "" /\ exit_code = NoExit
    /\ mode = "" /\ agents_to_run = <<>> /\ tasks = <<>> /\ output = NoOutput

\* the diff is chunked and asyncio.gather starts process_chunk for every
\* chunk
GatherLaunch ==
    /\ pc = "gather_call"
    /\ chunks' = ChunkDiff(diff, max_chars)
    /\ calls' = [i \in 1..Len(chunks') |-> [PendingCall EXCEPT !.st = "sent"]]
    /\ pc' = "gather_wait"
    /\ UNCHANGED <<inputVars, multiVars, result, prompt_len, state, all_results,
                   exit_code>>

\* process_chunk of one chunk, any of those still awaited, completes: the
\* response is parsed, or the ClientError logged
ProcessChunkCompletes ==
    /\ pc = "gather_wait"
    /\ \E i \in 1..Len(calls), o \in GatherOutcomes :
          /\ calls[i].st = "sent"
          /\ LET rank == 1 + Cardinality({j \in 1..Len(calls) :
                                             calls[j].st # "sent"})
             IN  calls' = [calls EXCEPT ![i] =
                    IF o.kind = "raise"
                    THEN [@ EXCEPT !.st = "raised", !.seq = rank]
                    ELSE [st |-> "returned", response |-> o.text,
                          parsed |-> ParseJsonResponse(o.text, agent_name),
                          seq |-> rank]]
    /\ UNCHANGED <<pc, inputVars, multiVars, chunks, result, prompt_len, state,
                   all_results, exit_code>>

\* gather returns once every process_chunk completed: the results are
\* filtered and aggregated
GatherJoin ==
    /\ pc = "gather_wait"
    /\ AllResolved
    /\ all_results' = ValidResults(calls, 0)
    /\ result' = AggregateChunkResults(all_results', agent_name)
    /\ pc' = "gather_done"
    /\ UNCHANGED <<inputVars, multiVars, chunks, prompt_len, state, calls,
                   exit_code>>

NextGather == GatherLaunch \/ ProcessChunkCompletes \/ GatherJoin

SpecGather == InitGather /\ [][NextGather]_vars

-----------------------------------------------------------------------------
(* Specification of the aggregator alone *)

\* the chunk responses of the modelled aggregations
ChunkResponses ==
    {Join(<<Sym("{"), Sym("P"), Sym("e"), Sym("}")>>),
     Join(<<Sym("{"), Sym("F"), Sym("v"), Sym("}")>>),
     Join(<<Sym("{"), Sym("w"), Sym("F"), Sym("}")>>),
     Join(<<Sym("{"), Sym("D"), Sym("d"), Sym("}")>>),
     Join(<<Sym("{"), Sym("C"), Sym("}")>>),
     Join(<<Sym("{"), Sym("N"), Sym("T"), Sym("r"), Sym("}")>>),
     Join(<<Sym("{"), Sym("O"), Sym("U"), Sym("r"), Sym("}")>>),
     Join(<<Sym("{"), Sym("O"), Sym("u"), Sym("}")>>),
     Join(<<Sym("["), Sym("]")>>),
     Sym("x")}

RECURSIVE ListsOver(_, _)
\* the lists of at most k elements of set
ListsOver(set, k) ==
    IF k = 0 THEN {<<>>}
    ELSE LET shorter == ListsOver(set, k - 1)
         IN  shorter \cup
             {Append(l, e) : l \in {x \in shorter : Len(x) = k - 1}, e \in set}

InitAggregate ==
    /\ pc = "aggregate_call"
    /\ agent_name \in AGENTS
    /\ all_results \in
          ListsOver({ParseJsonResponse(t, agent_name) : t \in ChunkResponses},
                    MaxResults)
    /\ result = NoResult
    /\ ChunkerIdle
    /\ ParserIdle
    /\ runner = "" /\ context_len = 0 /\ prompt_len = 0 /\ state = ""
    /\ calls = <<>> /\ exit_code = NoExit
    /\ mode = "" /\ agents_to_run = <<>> /\ tasks = <<>> /\ output = NoOutput

\* one call of _aggregate_chunk_results
DoAggregate ==
    /\ pc = "aggregate_call"
    /\ result' = AggregateChunkResults(all_results, agent_name)
    /\ pc' = "aggregate_done"
    /\ UNCHANGED <<inputVars, multiVars, chunks, prompt_len, state, calls,
                   all_results, exit_code>>

NextAggregate == DoAggregate

SpecAggregate == InitAggregate /\ [][NextAggregate]_vars

-----------------------------------------------------------------------------
(* Claims about the aggregator *)

RECURSIVE ViolationsBefore(_, _)
\* v1 + ... + v(i-1): the entries the chunks before chunk i carry
ViolationsBefore(results, i) ==
    IF i <= 1 THEN 0
    ELSE Len(GetViolations(results[i - 1])) + ViolationsBefore(results, i - 1)

\* C6: aggregating N >= 1 chunk results for code_quality, chunk i carrying
\* vi entries in its violations list, gives a violations list that is the
\* concatenation in chunk order, of length v1 + ... + vN, a
\* violations_count equal to that length, and status FAIL if and only if
\* the sum is not zero, PASS otherwise.
C6_ViolationsConcatenated ==
    /\ pc = "aggregate_done"
    /\ agent_name = "code_quality"
    /\ Len(all_results) >= 1
    /\ \A i \in 1..Len(all_results) : all_results[i].type = "dict"
    => LET total == ViolationsBefore(all_results, Len(all_results) + 1)
       IN  /\ Len(result.violations) = total
           /\ \A i \in 1..Len(all_results) :
                 SubSeq(result.violations,
                        ViolationsBefore(all_results, i) + 1,
                        ViolationsBefore(all_results, i + 1))
                    = GetViolations(all_results[i])
           /\ result.violations_count = total
           /\ {"status", "violations", "violations_count"} \subseteq result.has
           /\ result.status = IF total # 0 THEN "FAIL" ELSE "PASS"

\* C6 witness: three chunks carrying 1, 0 and 2 violations were merged
C6_Witness ==
    /\ pc = "aggregate_done"
    /\ agent_name = "code_quality"
    /\ Len(all_results) = 3
    /\ GetViolations(all_results[1]) = <<"v1">>
    /\ GetViolations(all_results[2]) = <<>>
    /\ GetViolations(all_results[3]) = <<"w1", "w2">>
    /\ result.violations = <<"v1", "w1", "w2">>
    /\ result.status = "FAIL"

-----------------------------------------------------------------------------
(* Claims about a run *)

\* the status main reads off a result: result.get('status', 'ERROR')
StatusRead(r) == IF "status" \in r.has THEN r.status ELSE "ERROR"

\* the results the run put out: the single agent's, or the mapping's values
Reported ==
    IF mode = "single" THEN IF state = "Done" THEN {result} ELSE {}
    ELSE {output.val[a] : a \in output.has}

\* the run ended in an exception main caught: the context could not be
\* fetched, invoke_agent raised, or a result was no dictionary
Uncaught ==
    \/ mode = "single" /\ state # "Done"
    \/ mode = "multi" /\ tasks = <<>>
    \/ \E r \in Reported : r.type # "dict"

\* C1 as stated: the process exits non-zero if the single agent's status,
\* or any agent's status in the output mapping, is one of FAIL, ERROR,
\* LLD_DEVIATION_FOUND, and exits zero otherwise (runs ended by an uncaught
\* exception set aside).
C1_ExitCodeByStatus ==
    pc = "exited" /\ ~Uncaught =>
        (exit_code # 0 <=>
            \E r \in Reported :
                /\ "status" \in r.has
                /\ r.status \in {"FAIL", "ERROR", "LLD_DEVIATION_FOUND"})

\* C1 amended: the process exits 1 if the run ended in an uncaught
\* exception or if the status read off the single agent's result, or off
\* any result of the output mapping, is one of FAIL, ERROR,
\* LLD_DEVIATION_FOUND, a result without a status being read as ERROR; it
\* exits 0 otherwise.
C1_ExitCodeByStatusRead ==
    pc = "exited" =>
        /\ exit_code \in {0, 1}
        /\ exit_code = 1 <=>
              \/ Uncaught
              \/ \E r \in Reported :
                    StatusRead(r) \in {"FAIL", "ERROR", "LLD_DEVIATION_FOUND"}

\* C1 witness: a multi-agent run exited 1 on a deviation one agent reported
\* while another agent passed
C1_Witness ==
    /\ pc = "exited"
    /\ mode = "multi"
    /\ ~Uncaught
    /\ exit_code = 1
    /\ \E r \in Reported : r.status = "PASS"
    /\ \A r \in Reported : "status" \in r.has /\ r.status \in {"PASS", "FAIL"}

\* the tasks of run_agents_parallel were gathered
Gathered == mode = "multi" /\ pc \in {"main_report", "exited"} /\ tasks # <<>>

\* C2: in run_agents_parallel, whichever tasks raise, every other task
\* still runs to completion and the keys of the returned mapping are
\* exactly the agents whose task did not raise.
C2_OutputIsTheTasksThatReturned ==
    Gathered =>
        /\ \A i \in 1..Len(tasks) : tasks[i].st \in {"returned", "raised"}
        /\ output.has =
              {agents_to_run[i] : i \in {j \in 1..Len(tasks) :
                                            tasks[j].st = "returned"}}
        /\ \A i \in 1..Len(tasks) :
              tasks[i].st = "returned" =>
                 \E j \in i..Len(tasks) :
                    /\ agents_to_run[j] = agents_to_run[i]
                    /\ output.val[agents_to_run[i]] = tasks[j].value

\* C2 witness: of three agents one raised and the mapping holds the other
\* two
C2_Witness ==
    /\ Gathered
    /\ Len(tasks) = 3
    /\ Cardinality({i \in 1..3 : tasks[i].st = "raised"}) = 1
    /\ Cardinality(output.has) = 2

\* C3: in every run mode an agent that fails or errors still has a status
\* in the output of the run, and an agent all of whose chunks failed is
\* reported with status ERROR.
C3_FailingAgentIsReported ==
    /\ Gathered =>
          \A i \in 1..Len(tasks) :
             tasks[i].st = "raised" => agents_to_run[i] \in output.has
    /\ mode = "single" /\ state = "Done" /\ IsChunked
       /\ (\A i \in 1..Len(calls) : calls[i].st = "raised")
       => result.status = "ERROR"

\* C7: aggregating an empty list gives, for every agent, a record with
\* status ERROR and an error message; so a chunked run, serial or
\* concurrent, all of whose chunk calls raised a transport error returns
\* status ERROR.
C7_NoChunkResultsIsError ==
    IsChunked /\ state \in {"Aggregated", "Done"} =>
        /\ all_results = <<>> =>
              /\ {"status", "error"} \subseteq result.has
              /\ result.status = "ERROR"
              /\ result.error = "No results from chunk processing"
        /\ (\A i \in 1..Len(calls) : calls[i].st = "raised") =>
              /\ all_results = <<>>
              /\ result.status = "ERROR"

\* C7 witness: both chunk calls of a concurrent run raised and the run
\* returned ERROR
C7_Witness ==
    /\ runner = "async"
    /\ state = "Done"
    /\ Len(calls) = 2
    /\ \A i \in 1..Len(calls) : calls[i].st = "raised"
    /\ result.status = "ERROR"

\* C10: a diff of 120,000 characters reviewed by code_quality takes the
\* chunked path of invoke_agent and the chunker returns at least 2 chunks.
C10_LargeDiffIsChunked ==
    /\ mode = "single"
    /\ agent_name = "code_quality"
    /\ TLen(diff) = 120000
    /\ state \notin {"NotStarted", "PromptBuilt"}
    => /\ IsChunked
       /\ Len(chunks) >= 2

-----------------------------------------------------------------------------
(* Claims about the parser *)

\* the response cannot be decoded as JSON after fence stripping
Undecodable == ~JsonLoads(Cleaned(response_text)).ok

\* C8: for every agent and every response text that cannot be decoded as
\* JSON after fence stripping, _parse_json_response returns (it does not
\* raise) the default record of that agent: status ERROR, the result
\* collections of the agent's schema empty, and _raw the first 1000
\* characters of the raw text, never more than 1000.
C8_UnparsableGivesDefault ==
    pc = "parse_done" /\ Undecodable =>
        /\ result.type = "dict"
        /\ {"status", "_raw"} \subseteq result.has
        /\ result.status = "ERROR"
        /\ result.raw = Take(response_text, RAW_LIMIT)
        /\ TLen(result.raw) <= RAW_LIMIT
        /\ TLen(result.raw) = IF TLen(response_text) < RAW_LIMIT
                              THEN TLen(response_text) ELSE RAW_LIMIT
        /\ agent_name = "code_quality" =>
              /\ {"violations", "violations_count"} \subseteq result.has
              /\ result.violations = <<>> /\ result.violations_count = 0
        /\ agent_name = "architect" =>
              /\ {"patterns", "new_pattern_found"} \subseteq result.has
              /\ result.patterns = <<>> /\ ~result.new_pattern_found
        /\ agent_name = "lld_alignment" =>
              /\ "deviations" \in result.has
              /\ result.deviations = <<>>

\* the response is the document between an opening and a closing fence
Fenced ==
    \E opener \in FenceOpeners, closer \in FenceClosers :
        response_text = Join(<<opener, document, closer>>)

\* C9: for every JSON document J, parsing J wrapped in triple-backtick code
\* fences (with or without the json tag, with white space around) gives the
\* same structured result as parsing the unwrapped J.
C9_FencedParsesAsUnfenced ==
    pc = "parse_done" /\ JsonLoads(document).ok /\ Fenced =>
        result = ParseJsonResponse(document, agent_name)

\* C9 witness: an object carrying a status was parsed out of a tagged fence
C9_Witness ==
    /\ pc = "parse_done"
    /\ JsonLoads(document).ok
    /\ response_text = Join(<<FENCE, JSON_TAG, Sym("\n"), document,
                              Sym("\n"), FENCE>>)
    /\ result.type = "dict"
    /\ result.status = "FAIL"
    /\ result.violations = <<"v1">>

-----------------------------------------------------------------------------
(* Claims about the chunker *)

\* the call returned and the diff was longer than the threshold
ChunkedOverThreshold == pc = "chunk_done" /\ TLen(diff) > max_chars

\* C4: for every diff longer than the threshold, the returned chunks joined
\* in order are the diff again, whether or not the diff has text before its
\* first 'diff --git a/' marker or no marker at all.
C4_ChunksReassembleDiff ==
    ChunkedOverThreshold => Join(chunks) = diff

RECURSIVE TilesBlocks(_, _, _)
\* cs, in order, are each one or more whole consecutive blocks of blocks,
\* all of blocks are used, and a chunk longer than limit is a single block
TilesBlocks(cs, blocks, limit) ==
    IF cs = <<>> THEN blocks = <<>>
    ELSE \E j \in 1..Len(blocks) :
            /\ Head(cs) = Join(SubSeq(blocks, 1, j))
            /\ TLen(Head(cs)) > limit => j = 1
            /\ TilesBlocks(Tail(cs), SubSeq(blocks, j + 1, Len(blocks)), limit)

\* C5: for every diff longer than the threshold, each chunk is a
\* concatenation of whole consecutive file-diff blocks (no block is split
\* over two chunks), and a chunk is longer than the threshold only when it
\* is one single block that alone is longer than the threshold.
C5_ChunksAreWholeBlocks ==
    ChunkedOverThreshold => TilesBlocks(chunks, FileDiffs(diff), max_chars)

\* C5 witness: a diff over the threshold was split into several chunks, one
\* of them packing two blocks and one of them a single oversized block
C5_Witness ==
    /\ ChunkedOverThreshold
    /\ Len(chunks) >= 2
    /\ \E k \in 1..Len(chunks) : Len(FileDiffs(chunks[k])) >= 2
    /\ \E k \in 1..Len(chunks) :
          TLen(chunks[k]) > max_chars /\ Len(FileDiffs(chunks[k])) = 1

\* C11: for every diff text whose length is at most the threshold,
\* _chunk_diff returns exactly one chunk, identical to the input, whatever
\* the text contains.
C11_SmallDiffIsOneChunk ==
    pc = "chunk_done" /\ TLen(diff) <= max_chars => chunks = <<diff>>

\* C11 witness: a diff exactly as long as the threshold, with text before
\* its only marker, came back as one chunk
C11_Witness ==
    /\ pc = "chunk_done"
    /\ TLen(diff) = max_chars
    /\ Len(diff) = 2 /\ diff[1].c # "M" /\ diff[2].c = "M"
    /\ chunks = <<diff>>

-----------------------------------------------------------------------------
(* Further claims about a run *)

\* C12: in multi-agent mode the process exits with code 0 only if every
\* requested agent is in the output mapping with a status outside FAIL,
\* ERROR, LLD_DEVIATION_FOUND; a run in which some or all of the requested
\* agents raised during invocation does not exit 0.
C12_ExitZeroNeedsEveryAgent ==
    mode = "multi" /\ pc = "exited" /\ exit_code = 0 =>
        \A i \in 1..Len(agents_to_run) :
            /\ agents_to_run[i] \in output.has
            /\ StatusRead(output.val[agents_to_run[i]])
                  \notin {"FAIL", "ERROR", "LLD_DEVIATION_FOUND"}

-----------------------------------------------------------------------------
(* Further claims about the aggregator *)

\* the chunk results handed to the aggregator are dictionaries, one at least
SomeDictResults ==
    /\ pc = "aggregate_done"
    /\ Len(all_results) >= 1
    /\ \A i \in 1..Len(all_results) : all_results[i].type = "dict"

\* C13: for every agent, if any chunk result handed to the aggregator has a
\* status among FAIL, ERROR, LLD_DEVIATION_FOUND, the aggregated result has
\* a status among them too: a failure of a later chunk is never masked by
\* an earlier passing chunk.
C13_FailingChunkFailsAggregate ==
    /\ SomeDictResults
    /\ \E i \in 1..Len(all_results) :
          /\ "status" \in all_results[i].has
          /\ all_results[i].status \in {"FAIL", "ERROR", "LLD_DEVIATION_FOUND"}
    => /\ result.type = "dict"
       /\ "status" \in result.has
       /\ result.status \in {"FAIL", "ERROR", "LLD_DEVIATION_FOUND"}

-----------------------------------------------------------------------------
(* Claims about the routing and the life of one agent run *)

\* C14: invoke_agent takes the chunked path if and only if the assembled
\* prompt is longer than 150,000 characters; otherwise it makes exactly one
\* single-shot inference call and nothing is aggregated.
C14_RoutedByPromptLength ==
    /\ [](mode = "single" /\ state \notin {"NotStarted", "PromptBuilt"} =>
            IF prompt_len > 150000
            THEN Len(calls) = Len(chunks)
            ELSE /\ Len(calls) = 1
                 /\ chunks = <<>>
                 /\ all_results = <<>>
                 /\ state # "Aggregated"
                 /\ state = "Done" => /\ calls[1].st = "returned"
                                      /\ result = calls[1].parsed)
    /\ [][state = "PromptBuilt" /\ state' # state =>
            /\ state' = "Chunked" <=> prompt_len > 150000
            /\ state' = "SingleShot" <=> prompt_len <= 150000]_vars

\* C14 witness: a run whose prompt is exactly 150,000 characters long
\* finished with its one single-shot call and no aggregation
C14_Witness ==
    /\ mode = "single"
    /\ state = "Done"
    /\ prompt_len = 150000
    /\ Len(calls) = 1
    /\ all_results = <<>>

\* some inference call of the run raised a transport error
SomeCallRaised == \E i \in 1..Len(calls) : calls[i].st = "raised"

Stage ==
    IF state = "Parsed" /\ prompt_len > 150000
       /\ \E i \in 1..Len(calls) : calls[i].st \in {"pending", "sent"}
    THEN "AwaitingResponse"
    ELSE state

\* the steps from one stage to the next; Failed is the propagated failure,
\* and a chunked run without any chunk has no response to await or parse
StageSteps ==
    {<<"NotStarted", "PromptBuilt">>,
     <<"PromptBuilt", "SingleShot">>, <<"PromptBuilt", "Chunked">>,
     <<"SingleShot", "AwaitingResponse">>, <<"Chunked", "AwaitingResponse">>,
     <<"AwaitingResponse", "Parsed">>, <<"AwaitingResponse", "Failed">>,
     <<"Parsed", "Aggregated">>, <<"Parsed", "Done">>, <<"Parsed", "Failed">>,
     <<"Chunked", "Aggregated">>,
     <<"Aggregated", "Done">>}

\* C16: a single agent run moves only along NotStarted, PromptBuilt,
\* SingleShot or Chunked, AwaitingResponse, Parsed, Aggregated (only when
\* chunked), Done: no inference call is issued before the prompt is built,
\* no result is parsed before its response arrived, the aggregation comes
\* only after every chunk was awaited and only on the chunked path, and the
\* run ends in Done or in a propagated failure.
C16_RunFollowsItsStages ==
    /\ [](mode = "single" =>
            /\ state \in {"NotStarted", "PromptBuilt"} =>
                  calls = <<>> /\ result = NoResult
            /\ \A i \in 1..Len(calls) :
                  IF calls[i].st = "returned"
                  THEN calls[i].parsed =
                          ParseJsonResponse(calls[i].response, agent_name)
                  ELSE calls[i].parsed = NoResult
            /\ state = "Aggregated" \/ all_results # <<>> =>
                  /\ prompt_len > 150000
                  /\ \A i \in 1..Len(calls) :
                        calls[i].st \in {"returned", "raised"}
            /\ pc = "exited" => state \in {"NotStarted", "Done", "Failed"}
            /\ pc = "exited" /\ state = "NotStarted" => exit_code = 1)
    /\ [][mode = "single" =>
            /\ Stage' # Stage => <<Stage, Stage'>> \in StageSteps
            /\ state' = "Aggregated" /\ state # "Aggregated" =>
                  /\ prompt_len > 150000
                  /\ \A i \in 1..Len(calls) :
                        calls[i].st \in {"returned", "raised"}
            /\ <<Stage, Stage'>> = <<"Chunked", "Aggregated">> => chunks = <<>>
            /\ <<Stage, Stage'>> = <<"Parsed", "Done">> => prompt_len <= 150000
            /\ \A i \in 1..Len(calls) :
                  i <= Len(calls') /\ calls'[i].st = "returned"
                  /\ calls[i].st # "returned" => calls[i].st = "sent"]_vars

\* C16 witness: a serial chunked run of two chunks went through the
\* aggregation to Done
C16_Witness ==
    /\ mode = "single"
    /\ runner = "serial"
    /\ state = "Done"
    /\ prompt_len > 150000
    /\ Len(calls) = 2
    /\ \A i \in 1..2 : calls[i].st = "returned"
    /\ Len(all_results) = 2

-----------------------------------------------------------------------------
(* Claims about the aggregation for architect and for the other agents *)

RECURSIVE PatternsBefore(_, _)
\* the number of pattern entries the chunks before chunk i carry
PatternsBefore(results, i) ==
    IF i <= 1 THEN 0
    ELSE Len(GetPatterns(results[i - 1])) + PatternsBefore(results, i - 1)

\* C17: aggregating N >= 1 chunk results for architect gives a patterns
\* list that is the concatenation, in chunk order, of the chunks' pattern
\* entries, new_pattern_found true if and only if some chunk flagged
\* new_pattern_found, and status NEW_PATTERN_DETECTED in exactly that case,
\* NO_NEW_PATTERN otherwise.
C17_PatternsConcatenated ==
    SomeDictResults /\ agent_name = "architect" =>
        LET flagged == \E i \in 1..Len(all_results) :
                          /\ "new_pattern_found" \in all_results[i].has
                          /\ all_results[i].new_pattern_found
        IN  /\ {"status", "patterns", "new_pattern_found"} \subseteq result.has
            /\ Len(result.patterns) =
                  PatternsBefore(all_results, Len(all_results) + 1)
            /\ \A i \in 1..Len(all_results) :
                  SubSeq(result.patterns,
                         PatternsBefore(all_results, i) + 1,
                         PatternsBefore(all_results, i + 1))
                     = GetPatterns(all_results[i])
            /\ result.new_pattern_found = flagged
            /\ result.status = IF flagged THEN "NEW_PATTERN_DETECTED"
                               ELSE "NO_NEW_PATTERN"

\* C17 witness: two patterns of chunk 1 and the one of chunk 2, which alone
\* flagged a new pattern, were merged in that order
C17_Witness ==
    /\ SomeDictResults
    /\ agent_name = "architect"
    /\ Len(all_results) = 2
    /\ GetPatterns(all_results[1]) = <<"p2", "p3">>
    /\ ~GetNewPatternFound(all_results[1])
    /\ GetPatterns(all_results[2]) = <<"p1">>
    /\ GetNewPatternFound(all_results[2])
    /\ result.patterns = <<"p2", "p3", "p1">>
    /\ result.status = "NEW_PATTERN_DETECTED"

\* C18: for every agent other than code_quality and architect, aggregating
\* N >= 1 chunk results returns the first chunk's result with all its
\* fields unchanged, plus one added note field that tells how many chunks
\* were merged.
C18_FirstResultWithNote ==
    /\ pc = "aggregate_done"
    /\ agent_name \notin {"code_quality", "architect"}
    /\ Len(all_results) >= 1
    /\ all_results[1].type = "dict"
    => /\ result.has = all_results[1].has \cup {"_note"}
       /\ result.note = Len(all_results)
       /\ [result EXCEPT !.has = all_results[1].has,
                         !.note = all_results[1].note] = all_results[1]

\* C18 witness: for lld_alignment a compliant first chunk and a deviating
\* second chunk gave the first chunk's result with the note of 2 chunks
C18_Witness ==
    /\ pc = "aggregate_done"
    /\ agent_name = "lld_alignment"
    /\ Len(all_results) = 2
    /\ all_results[1].status = "LLD_COMPLIANT"
    /\ all_results[2].status = "LLD_DEVIATION_FOUND"
    /\ result.status = "LLD_COMPLIANT"
    /\ "_note" \in result.has
    /\ result.note = 2

-----------------------------------------------------------------------------
(* Claims about the concurrent chunked path *)

\* what the gathered calls give, chunk by chunk
GatheredInChunkOrder ==
    [i \in 1..Len(calls) |->
        IF calls[i].st = "returned" THEN calls[i].parsed
        ELSE ChunkErrorDict(i - 1)]

\* a gathered result the filter keeps
KeptResult(r) == r.type = "dict" /\ ~("status" \in r.has /\ r.status = "ERROR")

\* C19: in concurrent mode all chunk invocations of an agent are launched
\* together and joined together, and for every agent the aggregated result
\* is the same whatever the order in which the chunk invocations complete:
\* it is what the chunks' responses give taken in chunk order.
C19_CompletionOrderIsIrrelevant ==
    /\ pc = "gather_wait" =>
          /\ Len(calls) = Len(chunks)
          /\ \A i \in 1..Len(calls) : calls[i].st # "pending"
    /\ pc = "gather_done" =>
          /\ \A i \in 1..Len(calls) : calls[i].st \in {"returned", "raised"}
          /\ all_results = SelectSeq(GatheredInChunkOrder, KeptResult)
          /\ result = AggregateChunkResults(
                         SelectSeq(GatheredInChunkOrder, KeptResult), agent_name)

\* C19 witness: the second chunk's call, a deviation, completed before the
\* first chunk's, compliant, and the first chunk's result was returned
C19_Witness ==
    /\ pc = "gather_done"
    /\ agent_name = "lld_alignment"
    /\ Len(calls) = 2
    /\ calls[1].seq = 2 /\ calls[2].seq = 1
    /\ calls[1].st = "returned" /\ calls[1].parsed.status = "LLD_COMPLIANT"
    /\ calls[2].st = "returned" /\ calls[2].parsed.status = "LLD_DEVIATION_FOUND"
    /\ result.status = "LLD_COMPLIANT"

\* C20: for the same PR context, agent and outcomes of the chunks' calls
\* (a response text, parsable or not, or a transport error for each chunk),
\* the chunked path of the serial runner and that of the concurrent runner
\* return the same aggregated result, and the process the same exit code.
C20_SerialAndConcurrentAgree ==
    /\ mode = "single"
    /\ prompt_len > 150000
    /\ state \in {"Aggregated", "Done", "Failed"}
    => LET serial == AggregateChunkResults(SerialResults(calls), agent_name)
           concurrent == AggregateChunkResults(ValidResults(calls, 0),
                                               agent_name)
       IN  /\ result = IF runner = "serial" THEN serial ELSE concurrent
           /\ serial = concurrent
           /\ ExitCodeOf(serial) = ExitCodeOf(concurrent)

-----------------------------------------------------------------------------
(* Claim about what of the diff is reviewed *)

\* C21: for every agent run that completes without a transport error, on
\* the single-shot path and on the chunked path alike, every character of
\* the fetched diff is in the diff section of at least one prompt sent to
\* the endpoint: the sections, which are taken from the diff one after the
\* other, together are the whole diff.
C21_WholeDiffIsSent ==
    /\ mode = "single"
    /\ state = "Done"
    /\ \A i \in 1..Len(calls) : calls[i].st = "returned"
    => Join(SentSections) = diff

====
